---- MODULE Spec2Model ----
(***************************************************************************)
(* Model of main/two_way_comm.c: one ESP-NOW node.                         *)
(*                                                                         *)
(* Three pieces of code run against the same globals:                      *)
(*   - app_main's while(1) loop together with send_with_retry (the main    *)
(*     task), modelled statement by statement with the program counter pc  *)
(*     (labels are source line numbers);                                   *)
(*   - on_data_recv and on_data_sent, called by the transport from the     *)
(*     Wi-Fi task.  That task has a higher priority than the main task, so *)
(*     a callback runs to completion between any two statements of the     *)
(*     main task: each callback is one action.                             *)
(* The transport (ESP-NOW) is the environment: its peer list, its queue of *)
(* accepted frames whose send callback is still to come, and the clock.    *)
(* A send callback may come at any time after its frame was accepted, also *)
(* after the wait of line 130 has timed out; frames are received at any    *)
(* time; esp_now_send may reject any frame.                                *)
(*                                                                         *)
(* The variables marked "history" are not program state: they record where *)
(* a semaphore token came from, what a send was called for and what the    *)
(* last receive callback did, so that the properties can speak of them.    *)
(* Locals that are dead (ret, mac_addr, retry after the return) are reset. *)
(*                                                                         *)
(* Spec and SpecOwn are the one node with every environment; SpecLive adds *)
(* the fairness of the main task and of the clock.  SpecPair runs the same *)
(* code on two nodes that hear each other (variables node, air, clock).    *)
(***************************************************************************)
EXTENDS Integers, Sequences, FiniteSets

\* Program constants (two_way_comm.c:28-32, :130).
PEER_TIMEOUT_MS == 10000
DISCOVERY_INTERVAL_MS == 5000
MAX_RETRIES == 5
RETRY_DELAY_MS == 13
TRANSMIT_DELAY_MS == 1000
SEND_ACK_TIMEOUT_MS == 1000

\* Bounds of the model.
MaxClockSteps == 3      \* the clock stops after this many steps
MaxInflight == 2        \* frames the transport holds before it rejects a send

\* The clock is observed in steps of ClockStep.  A blocking call of one second
\* (lines 130, 209) returns at the first clock value not before its expiry; the
\* delay of RETRY_DELAY_MS may end with the clock unchanged.
ClockStep == DISCOVERY_INTERVAL_MS
MaxTime == MaxClockSteps * ClockStep

\* Hardware addresses.  ZERO is the initial content of peer_mac (line 34).
broadcast_mac == "FF"
my_mac_address == "ME"
ZERO == "00"

\* The source addresses of received frames: two other nodes and the broadcast
\* address in Spec; in SpecOwn one other node, the broadcast address and a
\* frame that carries this node's own address as its source.
Senders == {"A", "B", broadcast_mac}
SendersOwn == {"A", my_mac_address, broadcast_mac}

VARIABLES
    peer_mac,             \* static uint8_t peer_mac[]
    peer_found,           \* static bool peer_found
    last_peer_time,       \* static int64_t last_peer_time
    send_semaphore,       \* binary semaphore: 0 empty, 1 given
    send_success,         \* static volatile bool send_success
    peers,                \* the transport's peer list (allow-list)
    inflight,             \* accepted frames awaiting their send callback, oldest first
    now,                  \* esp_timer_get_time() / 1000
    pc,                   \* position of the main task
    current_time,         \* app_main local
    sequence_number,      \* app_main local
    message,              \* app_main local: the sequence number printed into message[]
    last_discovery_time,  \* app_main local
    mac_addr,             \* send_with_retry argument: which global it points to
    retry,                \* send_with_retry local
    ret,                  \* value returned by the last send_with_retry
    wake,                 \* time at which the current delay or wait expires
    aborted,              \* ESP_ERROR_CHECK failed: abort()
    sem_cur,              \* history: the token in the semaphore was given for the frame
                          \*   of the attempt now in progress
    took_cur,             \* history (line 131): the token taken at line 130 was given for
                          \*   this attempt's frame
    own_status,           \* history: the status reported for the frame of the attempt in
                          \*   progress, kept until the caller has read the result
    target,               \* history: the address mac_addr pointed to when send_with_retry
                          \*   was called
    unicasts,             \* history: the calls send_with_retry(peer_mac, ...) made in this
                          \*   iteration of the loop, until it reaches line 209
    bc_failed,            \* history: the send_with_retry(broadcast_mac, ...) of the last
                          \*   iteration returned false, and why it had been called
    ticks,                \* history: the iterations of the loop begun (line 179)
    ev,                   \* history: what the last step was and the peer-list calls it made
    node,                 \* two nodes on one channel: the state of each (see PairInit)
    air,                  \* two nodes: per node, the sources of the frames on their way to it
    clock                 \* two nodes: esp_timer_get_time() / 1000, the same on both

\* The variables of the one-node model, and those of the two-node model.
solo_vars == <<peer_mac, peer_found, last_peer_time, send_semaphore, send_success, peers,
               inflight, now, pc, current_time, sequence_number, message,
               last_discovery_time, mac_addr, retry, ret, wake, aborted,
               sem_cur, took_cur, own_status, target, unicasts, bc_failed, ticks,
               ev>>
pair_vars == <<node, air, clock>>

vars == <<solo_vars, pair_vars>>

peer_vars == <<peer_mac, peer_found, last_peer_time, peers>>
sem_vars == <<send_semaphore, send_success, sem_cur>>
tick_vars == <<current_time, sequence_number, message, last_discovery_time>>
call_vars == <<mac_addr, retry, ret>>
hist_vars == <<took_cur, own_status, target>>
iter_vars == <<unicasts, bc_failed, ticks>>

\* Two nodes on one channel.  A node's name stands for its address; each node
\* starts as the one node of Init does.
Nodes == {"X", "Y"}

PairInit ==
    /\ node = [n \in Nodes |->
                 [peer_mac |-> ZERO, peer_found |-> FALSE, last_peer_time |-> 0,
                  send_semaphore |-> 0, send_success |-> FALSE,
                  peers |-> {broadcast_mac}, inflight |-> 0, pc |-> "l179",
                  current_time |-> 0, sequence_number |-> 0, message |-> -1,
                  last_discovery_time |-> 0, mac_addr |-> "none", retry |-> 0,
                  ret |-> FALSE, wake |-> 0, aborted |-> FALSE]]
    /\ air = [n \in Nodes |-> <<>>]
    /\ clock = 0

Ev(type, src, ops) == [type |-> type, src |-> src, ops |-> ops]
DrvEv == Ev("-", "-", <<>>)

Init ==
    /\ peer_mac = ZERO
    /\ peer_found = FALSE
    /\ last_peer_time = 0
    /\ send_semaphore = 0
    /\ send_success = FALSE
    /\ peers = {broadcast_mac}
    /\ inflight = <<>>
    /\ now = 0
    /\ pc = "l179"
    /\ current_time = 0
    /\ sequence_number = 0
    /\ message = -1
    /\ last_discovery_time = 0
    /\ mac_addr = "none"
    /\ retry = 0
    /\ ret = FALSE
    /\ wake = 0
    /\ aborted = FALSE
    /\ sem_cur = FALSE
    /\ took_cur = FALSE
    /\ own_status = "none"
    /\ target = "-"
    /\ unicasts = 0
    /\ bc_failed = "-"
    /\ ticks = 0
    /\ ev = DrvEv
    /\ PairInit

----------------------------------------------------------------------------
\* The transport.

\* esp_now_del_peer: removes the address; an unknown address is an error the
\* callers ignore.
esp_now_del_peer(list, addr) == list \ {addr}

\* esp_now_add_peer succeeds unless the address is already on the list.
esp_now_add_peer_ok(list, addr) == addr \notin list

\* The main task is blocked and the time wake is still to come: in vTaskDelay
\* (lines 126, 141, 209) or in xSemaphoreTake with the semaphore empty (line 130).
Blocked ==
    /\ pc \in {"l126", "l141", "l209", "l130"}
    /\ pc = "l130" => send_semaphore = 0
    /\ now < wake

\* The clock.  The statements of the main task take no time: time passes
\* while it is blocked.
Elapse ==
    /\ ~aborted
    /\ Blocked
    /\ now + ClockStep <= MaxTime
    /\ now' = now + ClockStep
    /\ ev' = DrvEv
    /\ UNCHANGED <<peer_vars, sem_vars, inflight, pc, tick_vars, call_vars, wake,
                   aborted, hist_vars, iter_vars, pair_vars>>

\* on_data_sent (lines 55-59), called once per accepted frame, oldest first.
on_data_sent(status) ==
    /\ ~aborted
    /\ inflight # <<>>
    /\ send_success' = status
    /\ send_semaphore' = 1                   \* xSemaphoreGive: no effect when already given
    /\ sem_cur' = IF send_semaphore = 0 THEN Head(inflight).cur ELSE sem_cur
    /\ own_status' = IF Head(inflight).cur
                       THEN (IF status THEN "pos" ELSE "neg")
                       ELSE own_status
    /\ inflight' = Tail(inflight)
    /\ ev' = DrvEv
    /\ UNCHANGED <<peer_vars, now, pc, tick_vars, call_vars, wake, aborted, took_cur,
                   target, iter_vars, pair_vars>>

\* Line 64 with the comparison inverted (memcmp(...) == 0).
NewPeer_Inverted(src) == ~peer_found \/ src = peer_mac

\* The test of line 64: the frame's source is not the peer already held.
NewPeer(src) == ~peer_found \/ src # peer_mac

\* on_data_recv (lines 61-93) for a frame whose source address is src.  The
\* list calls it makes are recorded in ev.ops.  When esp_now_add_peer fails,
\* ESP_ERROR_CHECK (line 81) aborts before line 83.
on_data_recv(src) ==
    /\ ~aborted
    /\ IF src = broadcast_mac
         THEN /\ ev' = DrvEv
              /\ UNCHANGED <<peer_vars, aborted>>
         ELSE IF NewPeer(src)
           THEN LET removed == IF peer_found THEN esp_now_del_peer(peers, peer_mac)
                                             ELSE peers
                    dels == IF peer_found THEN << <<"del", peer_mac>> >> ELSE <<>>
                    ok == esp_now_add_peer_ok(removed, src)
                IN  /\ peer_mac' = src
                    /\ peer_found' = TRUE
                    /\ peers' = removed \cup {src}
                    /\ aborted' = ~ok
                    /\ last_peer_time' = IF ok THEN now ELSE last_peer_time
                    /\ ev' = Ev("recv", src, dels \o << <<"add", src>> >>)
           ELSE /\ last_peer_time' = now
                /\ ev' = Ev("recv", src, <<>>)
                /\ UNCHANGED <<peer_mac, peer_found, peers, aborted>>
    /\ UNCHANGED <<sem_vars, inflight, now, pc, tick_vars, call_vars, wake, hist_vars,
                   iter_vars, pair_vars>>

----------------------------------------------------------------------------
\* send_with_retry (lines 121-144), called with mac_addr pointing either to
\* the global peer_mac or to broadcast_mac.

\* The address mac_addr points to, read when esp_now_send is called.
Dest == IF mac_addr = "peer_mac" THEN peer_mac ELSE broadcast_mac

\* Where send_with_retry returns to: line 191 or line 202.
ReturnTo == IF mac_addr = "peer_mac" THEN "l191" ELSE "l202"

\* An attempt ends (lines 133, 135, 138): every frame still in flight, and a
\* token still in the semaphore, from now on belong to an earlier attempt.
Older(q) == [i \in 1..Len(q) |-> [q[i] EXCEPT !.cur = FALSE]]

\* Line 122: the loop test; line 143 when the attempts are used up.
SendLoop ==
    /\ ~aborted /\ pc = "l122"
    /\ IF retry < MAX_RETRIES
         THEN pc' = "l123" /\ UNCHANGED <<retry, ret>>
         ELSE pc' = ReturnTo /\ ret' = FALSE /\ retry' = 0
    /\ ev' = DrvEv
    /\ UNCHANGED <<peer_vars, sem_vars, inflight, now, tick_vars, mac_addr, wake,
                   aborted, hist_vars, iter_vars, pair_vars>>

\* Line 123, esp_now_send returns ESP_OK: the destination is on the peer list
\* and the transport has room.
SendAccepted ==
    /\ ~aborted /\ pc = "l123"
    /\ Dest \in peers
    /\ Len(inflight) < MaxInflight
    /\ inflight' = Append(inflight, [cur |-> TRUE])
    /\ wake' = now + SEND_ACK_TIMEOUT_MS
    /\ pc' = "l130"
    /\ ev' = DrvEv
    /\ UNCHANGED <<peer_vars, sem_vars, now, tick_vars, call_vars, aborted, hist_vars,
                   iter_vars, pair_vars>>

\* Line 123, esp_now_send returns an error (unknown peer, no memory, ...).
SendRejected ==
    /\ ~aborted /\ pc = "l123"
    /\ wake' = now + RETRY_DELAY_MS
    /\ pc' = "l126"
    /\ ev' = DrvEv
    /\ UNCHANGED <<peer_vars, sem_vars, inflight, now, tick_vars, call_vars, aborted,
                   hist_vars, iter_vars, pair_vars>>

\* Lines 126-127 and 141: vTaskDelay(RETRY_DELAY_MS), then retry++.
RetryDelay ==
    /\ ~aborted /\ pc \in {"l126", "l141"}
    /\ retry' = retry + 1
    /\ wake' = 0
    /\ pc' = "l122"
    /\ ev' = DrvEv
    /\ UNCHANGED <<peer_vars, sem_vars, inflight, now, tick_vars, mac_addr, ret,
                   aborted, hist_vars, iter_vars, pair_vars>>

\* Line 130: xSemaphoreTake returns pdTRUE.
TakeSignal ==
    /\ ~aborted /\ pc = "l130"
    /\ send_semaphore = 1
    /\ send_semaphore' = 0
    /\ took_cur' = sem_cur
    /\ wake' = 0
    /\ pc' = "l131"
    /\ ev' = DrvEv
    /\ UNCHANGED <<peer_vars, send_success, sem_cur, inflight, now, tick_vars,
                   call_vars, aborted, own_status, target, iter_vars, pair_vars>>

\* Line 130: xSemaphoreTake times out (line 138).
TakeTimeout ==
    /\ ~aborted /\ pc = "l130"
    /\ send_semaphore = 0
    /\ now >= wake
    /\ wake' = now + RETRY_DELAY_MS
    /\ pc' = "l141"
    /\ inflight' = Older(inflight)
    /\ ev' = DrvEv
    /\ UNCHANGED <<peer_vars, sem_vars, now, tick_vars, call_vars, aborted, hist_vars,
                   iter_vars, pair_vars>>

\* Lines 131-136: the outcome is read from send_success.
ReadOutcome ==
    /\ ~aborted /\ pc = "l131"
    /\ IF send_success
         THEN /\ pc' = ReturnTo /\ ret' = TRUE /\ retry' = 0 /\ wake' = 0
              /\ UNCHANGED own_status
         ELSE /\ pc' = "l141" /\ wake' = now + RETRY_DELAY_MS
              /\ own_status' = "none"
              /\ UNCHANGED <<retry, ret>>
    /\ inflight' = Older(inflight)
    /\ sem_cur' = FALSE
    /\ took_cur' = FALSE
    /\ ev' = DrvEv
    /\ UNCHANGED <<peer_vars, send_semaphore, send_success, now, tick_vars, mac_addr,
                   aborted, target, iter_vars, pair_vars>>

----------------------------------------------------------------------------
\* app_main's loop (lines 178-210).

\* Line 181 with the operands of the subtraction exchanged.
PeerTimedOut_Swapped == peer_found /\ (last_peer_time - current_time > PEER_TIMEOUT_MS)

\* The test of line 181.
PeerTimedOut == peer_found /\ (current_time - last_peer_time > PEER_TIMEOUT_MS)

\* Line 200 with >= for >.
DiscoveryDue_AtInterval ==
    ~peer_found \/ (current_time - last_discovery_time >= DISCOVERY_INTERVAL_MS)

\* The test of line 200.
DiscoveryDue ==
    ~peer_found \/ (current_time - last_discovery_time > DISCOVERY_INTERVAL_MS)

\* Line 179.
ReadClock ==
    /\ ~aborted /\ pc = "l179"
    /\ current_time' = now
    /\ pc' = "l181"
    /\ ticks' = ticks + 1
    /\ ev' = DrvEv
    /\ UNCHANGED <<peer_vars, sem_vars, inflight, now, sequence_number, message,
                   last_discovery_time, call_vars, wake, aborted, hist_vars, unicasts,
                   bc_failed, pair_vars>>

\* Line 181.
CheckTimeout ==
    /\ ~aborted /\ pc = "l181"
    /\ pc' = IF PeerTimedOut THEN "l183" ELSE "l188"
    /\ ev' = DrvEv
    /\ UNCHANGED <<peer_vars, sem_vars, inflight, now, tick_vars, call_vars, wake,
                   aborted, hist_vars, iter_vars, pair_vars>>

\* Lines 183 and 193: esp_now_del_peer(peer_mac).
DelPeer ==
    /\ ~aborted /\ pc \in {"l183", "l193"}
    /\ peers' = esp_now_del_peer(peers, peer_mac)
    /\ pc' = IF pc = "l183" THEN "l184" ELSE "l194"
    /\ ev' = Ev("main", "-", << <<"del", peer_mac>> >>)
    /\ UNCHANGED <<peer_mac, peer_found, last_peer_time, sem_vars, inflight, now,
                   tick_vars, call_vars, wake, aborted, hist_vars, iter_vars,
                   pair_vars>>

\* Lines 184-185 and 194-195: peer_found = false.
ClearPeer ==
    /\ ~aborted /\ pc \in {"l184", "l194"}
    /\ peer_found' = FALSE
    /\ pc' = IF pc = "l184" THEN "l188" ELSE "l200"
    /\ target' = "-"
    /\ ev' = DrvEv
    /\ UNCHANGED <<peer_mac, last_peer_time, peers, sem_vars, inflight, now,
                   tick_vars, call_vars, wake, aborted, took_cur, own_status, iter_vars,
                   pair_vars>>

\* Line 188 without the increment (sequence_number for sequence_number++).
BuildMessage_NoIncrement ==
    /\ ~aborted /\ pc = "l188"
    /\ message' = sequence_number
    /\ pc' = "l190"
    /\ ev' = DrvEv
    /\ UNCHANGED <<peer_vars, sem_vars, inflight, now, current_time, sequence_number,
                   last_discovery_time, call_vars, wake, aborted, hist_vars, iter_vars,
                   pair_vars>>

\* Line 188: the payload carries sequence_number, which is then incremented.
BuildMessage ==
    /\ ~aborted /\ pc = "l188"
    /\ message' = sequence_number
    /\ sequence_number' = sequence_number + 1
    /\ pc' = "l190"
    /\ ev' = DrvEv
    /\ UNCHANGED <<peer_vars, sem_vars, inflight, now, current_time,
                   last_discovery_time, call_vars, wake, aborted, hist_vars, iter_vars,
                   pair_vars>>

\* Line 190 without its test: send_with_retry(peer_mac, ...) in every iteration.
Unicast_Unconditional ==
    /\ ~aborted /\ pc = "l190"
    /\ pc' = "l122" /\ mac_addr' = "peer_mac" /\ retry' = 0
    /\ target' = peer_mac /\ unicasts' = unicasts + 1
    /\ ev' = DrvEv
    /\ UNCHANGED <<peer_vars, sem_vars, inflight, now, tick_vars, ret, wake,
                   aborted, took_cur, own_status, bc_failed, ticks, pair_vars>>

\* Lines 190-191: send_with_retry(peer_mac, ...) when a peer is held.
Unicast ==
    /\ ~aborted /\ pc = "l190"
    /\ IF peer_found
         THEN pc' = "l122" /\ mac_addr' = "peer_mac" /\ retry' = 0
              /\ target' = peer_mac /\ unicasts' = unicasts + 1
         ELSE pc' = "l200" /\ UNCHANGED <<mac_addr, retry, target, unicasts>>
    /\ ev' = DrvEv
    /\ UNCHANGED <<peer_vars, sem_vars, inflight, now, tick_vars, ret, wake,
                   aborted, took_cur, own_status, bc_failed, ticks, pair_vars>>

\* Line 191: the value send_with_retry(peer_mac, ...) returned.
UnicastReturned ==
    /\ ~aborted /\ pc = "l191"
    /\ pc' = IF ret THEN "l200" ELSE "l193"
    /\ target' = IF ret THEN "-" ELSE target
    /\ ret' = FALSE /\ mac_addr' = "none" /\ own_status' = "none"
    /\ ev' = DrvEv
    /\ UNCHANGED <<peer_vars, sem_vars, inflight, now, tick_vars, retry, wake,
                   aborted, took_cur, iter_vars, pair_vars>>

\* Lines 200-202: send_with_retry(broadcast_mac, ...) when discovery is due,
\* else line 209.
Discovery ==
    /\ ~aborted /\ pc = "l200"
    /\ IF DiscoveryDue
         THEN pc' = "l122" /\ mac_addr' = "broadcast_mac" /\ retry' = 0 /\ wake' = 0
              /\ target' = broadcast_mac
              /\ UNCHANGED unicasts
         ELSE pc' = "l209" /\ wake' = now + TRANSMIT_DELAY_MS
              /\ unicasts' = 0
              /\ UNCHANGED <<mac_addr, retry, target>>
    /\ bc_failed' = "-"
    /\ ev' = DrvEv
    /\ UNCHANGED <<peer_vars, sem_vars, inflight, now, tick_vars, ret, aborted,
                   took_cur, own_status, ticks, pair_vars>>

\* Lines 202-206 with line 203 moved out of the if: last_discovery_time is set
\* whatever send_with_retry returned.
DiscoveryReturned_AlwaysStamps ==
    /\ ~aborted /\ pc = "l202"
    /\ last_discovery_time' = current_time
    /\ pc' = "l209"
    /\ wake' = now + TRANSMIT_DELAY_MS
    /\ ret' = FALSE /\ mac_addr' = "none" /\ own_status' = "none" /\ target' = "-"
    /\ unicasts' = 0
    /\ bc_failed' = IF ret THEN "-"
                     ELSE IF current_time - last_discovery_time > DISCOVERY_INTERVAL_MS
                            THEN "interval"
                            ELSE "nopeer"
    /\ ev' = DrvEv
    /\ UNCHANGED <<peer_vars, sem_vars, inflight, now, current_time, sequence_number,
                   message, retry, aborted, took_cur, ticks, pair_vars>>

\* Lines 202-206 with the eviction of lines 193-194 also in the else branch
\* of line 204.
DiscoveryReturned_Evicts ==
    /\ ~aborted /\ pc = "l202"
    /\ last_discovery_time' = IF ret THEN current_time ELSE last_discovery_time
    /\ peers' = IF ret THEN peers ELSE esp_now_del_peer(peers, peer_mac)
    /\ peer_found' = IF ret THEN peer_found ELSE FALSE
    /\ pc' = "l209"
    /\ wake' = now + TRANSMIT_DELAY_MS
    /\ ret' = FALSE /\ mac_addr' = "none" /\ own_status' = "none" /\ target' = "-"
    /\ unicasts' = 0
    /\ bc_failed' = IF ret THEN "-"
                     ELSE IF current_time - last_discovery_time > DISCOVERY_INTERVAL_MS
                            THEN "interval"
                            ELSE "nopeer"
    /\ ev' = DrvEv
    /\ UNCHANGED <<peer_mac, last_peer_time, sem_vars, inflight, now, current_time,
                   sequence_number, message, retry, aborted, took_cur, ticks,
                   pair_vars>>

\* Lines 202-206: the value send_with_retry(broadcast_mac, ...) returned.
DiscoveryReturned ==
    /\ ~aborted /\ pc = "l202"
    /\ last_discovery_time' = IF ret THEN current_time ELSE last_discovery_time
    /\ pc' = "l209"
    /\ wake' = now + TRANSMIT_DELAY_MS
    /\ ret' = FALSE /\ mac_addr' = "none" /\ own_status' = "none" /\ target' = "-"
    /\ unicasts' = 0
    /\ bc_failed' = IF ret THEN "-"
                     ELSE IF current_time - last_discovery_time > DISCOVERY_INTERVAL_MS
                            THEN "interval"
                            ELSE "nopeer"
    /\ ev' = DrvEv
    /\ UNCHANGED <<peer_vars, sem_vars, inflight, now, current_time, sequence_number,
                   message, retry, aborted, took_cur, ticks, pair_vars>>

\* Line 209: vTaskDelay(TRANSMIT_DELAY_MS), then the next iteration.
Sleep ==
    /\ ~aborted /\ pc = "l209"
    /\ now >= wake
    /\ wake' = 0
    /\ pc' = "l179"
    /\ ev' = DrvEv
    /\ UNCHANGED <<peer_vars, sem_vars, inflight, now, tick_vars, call_vars,
                   aborted, hist_vars, iter_vars, pair_vars>>

----------------------------------------------------------------------------
Main ==
    \/ ReadClock \/ CheckTimeout \/ DelPeer \/ ClearPeer \/ BuildMessage
    \/ Unicast \/ UnicastReturned \/ Discovery \/ DiscoveryReturned \/ Sleep
    \/ SendLoop \/ SendAccepted \/ SendRejected \/ RetryDelay
    \/ TakeSignal \/ TakeTimeout \/ ReadOutcome

Next ==
    \/ Main
    \/ \E src \in Senders : on_data_recv(src)
    \/ \E status \in BOOLEAN : on_data_sent(status)
    \/ Elapse

NextOwn ==
    \/ Main
    \/ \E src \in SendersOwn : on_data_recv(src)
    \/ \E status \in BOOLEAN : on_data_sent(status)
    \/ Elapse

Spec == Init /\ [][Next]_vars

SpecOwn == Init /\ [][NextOwn]_vars

\* The main task runs whenever it is ready: it is the only task of its
\* priority, and the callbacks, which preempt it, return.  Time passes while
\* it is blocked.  Nothing is assumed of the transport: it need not accept a
\* frame, call on_data_sent or deliver a frame.
Fairness == WF_vars(Main) /\ WF_vars(Elapse)

SpecLive == Init /\ [][Next]_vars /\ Fairness

----------------------------------------------------------------------------
\* Two nodes, X and Y, each running the code above, on a link that delivers
\* every frame and reports every completion as success.  The actions are those
\* of the one-node model, with the state of node n in node[n].  The transport:
\* esp_now_send accepts a frame whose destination is on the sender's peer
\* list; an accepted frame reaches the node it is addressed to (the other
\* node, for the broadcast address), and on_data_sent reports success for it;
\* both happen before the clock's next step.  What the code does after a
\* rejected send, a negative or missing completion or an overdue peer (lines
\* 126, 138-141, 183-184, 193-194) does not happen on such a link: that is
\* what PairOnPath states.

At(n, line) == ~node[n].aborted /\ node[n].pc = line

PairDest(n) == IF node[n].mac_addr = "peer_mac" THEN node[n].peer_mac ELSE broadcast_mac

PairReturnTo(n) == IF node[n].mac_addr = "peer_mac" THEN "l191" ELSE "l202"

\* The frame node n has sent to dest is on its way to the node addressed.
Deliver(n, dest) ==
    [m \in Nodes |-> IF m # n /\ (dest = broadcast_mac \/ dest = m)
                       THEN Append(air[m], n)
                       ELSE air[m]]

\* on_data_sent (lines 55-59) on node n, with ESP_NOW_SEND_SUCCESS.
pair_on_data_sent(n) ==
    /\ ~node[n].aborted
    /\ node[n].inflight > 0
    /\ node' = [node EXCEPT ![n].send_success = TRUE,
                            ![n].send_semaphore = 1,
                            ![n].inflight = @ - 1]
    /\ UNCHANGED <<air, clock, solo_vars>>

\* Line 63 inverted (memcmp(...) == 0).
FromNode_Inverted(src) == src = broadcast_mac

\* The test of line 63.
FromNode(src) == src # broadcast_mac

\* on_data_recv (lines 61-93) on node n, for the oldest frame on its way to n.
pair_on_data_recv(n) ==
    /\ ~node[n].aborted
    /\ air[n] # <<>>
    /\ air' = [air EXCEPT ![n] = Tail(@)]
    /\ LET src == Head(air[n])
           me == node[n]
           removed == IF me.peer_found THEN esp_now_del_peer(me.peers, me.peer_mac)
                                       ELSE me.peers
           ok == esp_now_add_peer_ok(removed, src)
       IN  node' = IF ~FromNode(src)
                     THEN node
                   ELSE IF ~me.peer_found \/ src # me.peer_mac
                     THEN [node EXCEPT ![n].peer_mac = src,
                                       ![n].peer_found = TRUE,
                                       ![n].peers = removed \cup {src},
                                       ![n].aborted = ~ok,
                                       ![n].last_peer_time = IF ok THEN clock ELSE @]
                   ELSE [node EXCEPT ![n].last_peer_time = clock]
    /\ UNCHANGED <<clock, solo_vars>>

\* Line 122 (and line 143).
PairSendLoop(n) ==
    /\ At(n, "l122")
    /\ node' = IF node[n].retry < MAX_RETRIES
                 THEN [node EXCEPT ![n].pc = "l123"]
                 ELSE [node EXCEPT ![n].pc = PairReturnTo(n), ![n].ret = FALSE,
                                   ![n].retry = 0]
    /\ UNCHANGED <<air, clock, solo_vars>>

\* Line 123: esp_now_send returns ESP_OK.
PairSendAccepted(n) ==
    /\ At(n, "l123")
    /\ PairDest(n) \in node[n].peers
    /\ node' = [node EXCEPT ![n].inflight = @ + 1,
                            ![n].wake = clock + SEND_ACK_TIMEOUT_MS,
                            ![n].pc = "l130"]
    /\ air' = Deliver(n, PairDest(n))
    /\ UNCHANGED <<clock, solo_vars>>

\* Line 130: xSemaphoreTake returns pdTRUE.
PairTakeSignal(n) ==
    /\ At(n, "l130")
    /\ node[n].send_semaphore = 1
    /\ node' = [node EXCEPT ![n].send_semaphore = 0, ![n].wake = 0, ![n].pc = "l131"]
    /\ UNCHANGED <<air, clock, solo_vars>>

\* Lines 131-136.
PairReadOutcome(n) ==
    /\ At(n, "l131")
    /\ node' = IF node[n].send_success
                 THEN [node EXCEPT ![n].pc = PairReturnTo(n), ![n].ret = TRUE,
                                   ![n].retry = 0, ![n].wake = 0]
                 ELSE [node EXCEPT ![n].pc = "l141",
                                   ![n].wake = clock + RETRY_DELAY_MS]
    /\ UNCHANGED <<air, clock, solo_vars>>

\* Line 179.
PairReadClock(n) ==
    /\ At(n, "l179")
    /\ node' = [node EXCEPT ![n].current_time = clock, ![n].pc = "l181"]
    /\ UNCHANGED <<air, clock, solo_vars>>

\* The test of line 181 on node n.
PairPeerTimedOut(n) ==
    /\ node[n].peer_found
    /\ node[n].current_time - node[n].last_peer_time > PEER_TIMEOUT_MS

\* Line 181.
PairCheckTimeout(n) ==
    /\ At(n, "l181")
    /\ node' = [node EXCEPT ![n].pc = IF PairPeerTimedOut(n) THEN "l183" ELSE "l188"]
    /\ UNCHANGED <<air, clock, solo_vars>>

\* Line 188.
PairBuildMessage(n) ==
    /\ At(n, "l188")
    /\ node' = [node EXCEPT ![n].message = node[n].sequence_number,
                            ![n].sequence_number = @ + 1,
                            ![n].pc = "l190"]
    /\ UNCHANGED <<air, clock, solo_vars>>

\* Lines 190-191.
PairUnicast(n) ==
    /\ At(n, "l190")
    /\ node' = IF node[n].peer_found
                 THEN [node EXCEPT ![n].pc = "l122", ![n].mac_addr = "peer_mac",
                                   ![n].retry = 0]
                 ELSE [node EXCEPT ![n].pc = "l200"]
    /\ UNCHANGED <<air, clock, solo_vars>>

\* Line 191: the value send_with_retry(peer_mac, ...) returned.
PairUnicastReturned(n) ==
    /\ At(n, "l191")
    /\ node' = [node EXCEPT ![n].pc = IF node[n].ret THEN "l200" ELSE "l193",
                            ![n].ret = FALSE, ![n].mac_addr = "none"]
    /\ UNCHANGED <<air, clock, solo_vars>>

\* The test of line 200 on node n.
PairDiscoveryDue(n) ==
    \/ ~node[n].peer_found
    \/ node[n].current_time - node[n].last_discovery_time > DISCOVERY_INTERVAL_MS

\* Lines 200-202.
PairDiscovery(n) ==
    /\ At(n, "l200")
    /\ node' = IF PairDiscoveryDue(n)
                 THEN [node EXCEPT ![n].pc = "l122", ![n].mac_addr = "broadcast_mac",
                                   ![n].retry = 0, ![n].wake = 0]
                 ELSE [node EXCEPT ![n].pc = "l209",
                                   ![n].wake = clock + TRANSMIT_DELAY_MS]
    /\ UNCHANGED <<air, clock, solo_vars>>

\* Lines 202-206.
PairDiscoveryReturned(n) ==
    /\ At(n, "l202")
    /\ node' = [node EXCEPT
                  ![n].last_discovery_time = IF node[n].ret THEN node[n].current_time
                                                            ELSE @,
                  ![n].pc = "l209",
                  ![n].wake = clock + TRANSMIT_DELAY_MS,
                  ![n].ret = FALSE, ![n].mac_addr = "none"]
    /\ UNCHANGED <<air, clock, solo_vars>>

\* Line 209.
PairSleep(n) ==
    /\ At(n, "l209")
    /\ clock >= node[n].wake
    /\ node' = [node EXCEPT ![n].wake = 0, ![n].pc = "l179"]
    /\ UNCHANGED <<air, clock, solo_vars>>

\* Node n's main task is blocked and the time wake is still to come.
PairBlocked(n) ==
    /\ node[n].pc \in {"l126", "l141", "l209", "l130"}
    /\ node[n].pc = "l130" => node[n].send_semaphore = 0
    /\ clock < node[n].wake

\* The clock: time passes while both main tasks are blocked, and every frame
\* sent has been delivered and reported.
PairElapse ==
    /\ \A n \in Nodes : ~node[n].aborted /\ PairBlocked(n)
                        /\ air[n] = <<>> /\ node[n].inflight = 0
    /\ clock + ClockStep <= MaxTime
    /\ clock' = clock + ClockStep
    /\ UNCHANGED <<node, air, solo_vars>>

PairMain(n) ==
    \/ PairReadClock(n) \/ PairCheckTimeout(n) \/ PairBuildMessage(n)
    \/ PairUnicast(n) \/ PairUnicastReturned(n) \/ PairDiscovery(n)
    \/ PairDiscoveryReturned(n) \/ PairSleep(n)
    \/ PairSendLoop(n) \/ PairSendAccepted(n) \/ PairTakeSignal(n)
    \/ PairReadOutcome(n)

NextPair ==
    \/ \E n \in Nodes : PairMain(n)
    \/ \E n \in Nodes : pair_on_data_recv(n)
    \/ \E n \in Nodes : pair_on_data_sent(n)
    \/ PairElapse

\* Each main task runs whenever it is ready, the link delivers every frame
\* and reports every completion, and time passes.
PairFairness ==
    /\ \A n \in Nodes : /\ WF_vars(PairMain(n))
                        /\ WF_vars(pair_on_data_recv(n))
                        /\ WF_vars(pair_on_data_sent(n))
    /\ WF_vars(PairElapse)

SpecPair == Init /\ [][NextPair]_vars /\ PairFairness

----------------------------------------------------------------------------
\* Properties.

\* C1: the token send_with_retry takes at line 130 was given by on_data_sent
\* for the frame this attempt submitted, never for the frame of an earlier
\* attempt or of an earlier call.
C1_OwnSignalOnly == pc = "l131" => took_cur

\* C2: a call submits at most MAX_RETRIES times, and when it returns true the
\* status reported for the frame of its last attempt was success.
C2_DeliveredByOwnSignal ==
    /\ pc = "l123" => retry < MAX_RETRIES
    /\ (pc \in {"l191", "l202"} /\ ret) => own_status = "pos"

\* C3: at most one accepted frame awaits its send callback.
C3_OneOutstanding == Len(inflight) <= 1

\* C4: every address on the peer list other than the broadcast address is the
\* address of the peer held; with no peer held the list holds only the
\* broadcast address.
C4_AllowListIsPeer ==
    peers \ {broadcast_mac} \subseteq (IF peer_found THEN {peer_mac} ELSE {})

\* C5: a peer held is neither the broadcast address nor this node's address.
C5_PeerIsAnotherNode ==
    peer_found => peer_mac \notin {broadcast_mac, my_mac_address}

\* C6: a frame from an address other than the peer held makes on_data_recv
\* call esp_now_del_peer(old) and then esp_now_add_peer(new), once each, and
\* leaves the new address held with last_peer_time = now.
C6_ReplacePeer ==
    [][(peer_found /\ ev'.type = "recv" /\ ev'.src # peer_mac)
        => /\ ev'.ops = << <<"del", peer_mac>>, <<"add", ev'.src>> >>
           /\ peer_found'
           /\ peer_mac' = ev'.src
           /\ last_peer_time' = now]_vars

\* C7: a frame from the peer held changes neither peer_mac nor peer_found,
\* makes no call on the peer list, and sets last_peer_time to the time of
\* the receipt.
C7_SamePeerRefresh ==
    [][(peer_found /\ ev'.type = "recv" /\ ev'.src = peer_mac)
        => /\ peer_mac' = peer_mac
           /\ peer_found'
           /\ peers' = peers
           /\ ev'.ops = <<>>
           /\ last_peer_time' = now
           /\ ~aborted']_vars

\* C7 witness: on_data_recv has just handled a frame from the peer held.
C7_Witness ==
    /\ peer_found /\ ev.type = "recv" /\ ev.src = peer_mac /\ ev.ops = <<>>
    /\ last_peer_time = now /\ now > 0

\* C8: the eviction of lines 183-184 removes a peer that is overdue at that
\* moment: current_time - last_peer_time > PEER_TIMEOUT_MS with the
\* last_peer_time of the moment.
C8_EvictOnlyOverdue ==
    [][(pc \in {"l183", "l184"} /\ pc' # pc)
        => current_time - last_peer_time > PEER_TIMEOUT_MS]_vars

\* C9: when send_with_retry(peer_mac, ...) has returned false, lines 193-194
\* leave no peer held and the address the call was made for off the list
\* (the eviction the claim's next-tick behaviour rests on).
C9_FailedSendEvicts ==
    [][(pc = "l194" /\ pc' = "l200")
        => (~peer_found' /\ target \notin peers')]_vars

\* C10: line 200 calls send_with_retry(broadcast_mac, ...) exactly when no
\* peer is held or current_time - last_discovery_time > DISCOVERY_INTERVAL_MS.
C10_BroadcastRule ==
    [][(pc = "l200" /\ pc' # pc)
        => ((pc' = "l122" /\ mac_addr' = "broadcast_mac")
              <=> (~peer_found
                     \/ current_time - last_discovery_time > DISCOVERY_INTERVAL_MS))]_vars

\* C10 witness: line 200 has called for discovery with a peer held, because
\* the interval has elapsed.  No frame has arrived since line 179
\* (last_peer_time < current_time), so the peer was held at line 200.
C10_Witness ==
    /\ pc = "l122" /\ mac_addr = "broadcast_mac" /\ retry = 0
    /\ peer_found /\ last_peer_time < current_time
    /\ current_time - last_discovery_time > DISCOVERY_INTERVAL_MS

\* C11: an iteration that finds a peer held at line 190 calls
\* send_with_retry(peer_mac, ...) once, for the address held and with the
\* payload built at line 188 of this iteration; an iteration that finds no
\* peer held there makes no such call, and every frame it submits goes to the
\* broadcast address.
C11_OneUnicastPerTick ==
    [][/\ (pc = "l190" /\ pc' # pc)
          => IF peer_found
               THEN /\ pc' = "l122" /\ mac_addr' = "peer_mac" /\ target' = peer_mac
                    /\ message' = message /\ message = sequence_number - 1
                    /\ unicasts = 0 /\ unicasts' = 1
               ELSE pc' = "l200" /\ unicasts' = 0
       /\ unicasts' > unicasts => pc = "l190"
       /\ unicasts' <= 1
       /\ (pc = "l123" /\ unicasts = 0)
          => (mac_addr = "broadcast_mac" /\ Dest = broadcast_mac)]_vars

\* C11 witness: the one call of this iteration has returned true and line 200
\* is reached with the peer still held.
C11_Witness ==
    /\ pc = "l200" /\ unicasts = 1 /\ peer_found /\ message = sequence_number - 1
    /\ sequence_number > 1

\* C12: the process never aborts: no ESP_ERROR_CHECK fails once the loop of
\* app_main runs.
C12_NoAbort == ~aborted

\* An iteration starts with no peer held, or with the peer held overdue.
NoPeerTick ==
    /\ pc = "l179" /\ ~aborted
    /\ ~peer_found \/ now - last_peer_time > PEER_TIMEOUT_MS

\* send_with_retry(broadcast_mac, ...) is called with no peer held and no
\* call for a peer made in this iteration.
ProbeOnly ==
    /\ pc = "l122" /\ mac_addr = "broadcast_mac" /\ retry = 0
    /\ ~peer_found /\ unicasts = 0

\* on_data_recv has just handled a frame from a node.
FrameReceived == ev.type = "recv"

\* C14: an iteration that starts with the peer overdue, and every iteration
\* that starts with no peer held, leads to the discovery call with no peer
\* held and without a call for a peer, unless a frame is received.
C14_EvictThenProbe == NoPeerTick ~> (ProbeOnly \/ FrameReceived)

\* C14 witness: the discovery call of the iteration that evicted the overdue
\* peer, with no frame received since that iteration began.
C14_Witness ==
    /\ ProbeOnly /\ peer_mac # ZERO /\ peer_mac \notin peers
    /\ current_time - last_peer_time > PEER_TIMEOUT_MS

\* C15: when send_with_retry(peer_mac, ...) has returned false, line 193
\* removes the address the call was made for; when on_data_recv has adopted
\* another address during the call, that address stays on the peer list and
\* stays held.
C15_EvictsSendTarget ==
    [][/\ (pc = "l193" /\ pc' = "l194") => ev'.ops = << <<"del", target>> >>
       /\ (pc = "l194" /\ pc' = "l200" /\ peer_mac # target)
          => peer_found' = peer_found]_vars

\* C16: every esp_now_send of one call of send_with_retry is addressed to the
\* address mac_addr pointed to when the call was made.
C16_OneDestination ==
    [][(pc = "l123" /\ pc' # pc) => Dest = target]_vars

\* last_discovery_time is changed only by line 203, after
\* send_with_retry(broadcast_mac, ...) has returned true, and is then the
\* current_time of this iteration (read at line 179).
StampOnDelivered ==
    /\ last_discovery_time' # last_discovery_time => (pc = "l202" /\ ret)
    /\ (pc = "l202" /\ pc' # pc)
          => last_discovery_time' = IF ret THEN current_time ELSE last_discovery_time

\* Line 200 calls send_with_retry(broadcast_mac, ...).
ProbeCalled == pc' = "l122" /\ mac_addr' = "broadcast_mac"

\* C17 as stated: StampOnDelivered, and the iteration after one whose
\* discovery call returned false makes the discovery call again.
C17_FailedProbeRepeated ==
    [][/\ StampOnDelivered
       /\ (pc = "l200" /\ pc' # pc /\ bc_failed # "-") => ProbeCalled]_vars

\* C17 amended: StampOnDelivered, and the iteration after one whose
\* discovery call returned false makes the discovery call again when that
\* call had been due by the interval, or when still no peer is held.
C17_StampOnDelivered ==
    [][/\ StampOnDelivered
       /\ (pc = "l200" /\ pc' # pc /\ bc_failed = "interval") => ProbeCalled
       /\ (pc = "l200" /\ pc' # pc /\ bc_failed = "nopeer" /\ ~peer_found)
          => ProbeCalled]_vars

\* C17 witness: the discovery call, due by the interval, has returned false
\* and left last_discovery_time as it was; the next iteration is at line 200
\* with a peer held and the interval still exceeded.
C17_Witness ==
    /\ pc = "l200" /\ bc_failed = "interval" /\ peer_found
    /\ current_time - last_discovery_time > DISCOVERY_INTERVAL_MS

\* C18: the return of send_with_retry(broadcast_mac, ...) changes neither
\* peer_found, peer_mac nor the peer list; these are changed only by
\* on_data_recv, by lines 183-184 (timeout) and by lines 193-194 (after a
\* call for the peer has returned false).
C18_ProbeFailureKeepsPeer ==
    [][/\ (pc = "l202" /\ pc' # pc)
          => <<peer_found, peer_mac, peers>>' = <<peer_found, peer_mac, peers>>
       /\ <<peer_found, peer_mac, peers>>' # <<peer_found, peer_mac, peers>>
          => \/ ev'.type = "recv"
             \/ pc \in {"l183", "l184"}
             \/ pc \in {"l193", "l194"} /\ target # "-" /\ target # broadcast_mac]_vars

\* C18 witness: send_with_retry(broadcast_mac, ...) has just returned false
\* with a peer held and on the peer list.
C18_Witness ==
    /\ pc = "l209" /\ bc_failed # "-" /\ wake = now + TRANSMIT_DELAY_MS
    /\ peer_found /\ peer_mac \in peers /\ last_peer_time < current_time

\* C19: the payload is built once per iteration, from a sequence number one
\* above that of the iteration before: iteration k (k = 1, 2, ...) builds the
\* payload k - 1, whatever its sends return and whether a peer is held, and
\* every frame submitted in iteration k, by any attempt of the call for the
\* peer or of the discovery call, carries k - 1.
C19_SequencePerTick ==
    /\ sequence_number = IF pc \in {"l181", "l183", "l184", "l188"}
                            THEN ticks - 1 ELSE ticks
    /\ message = sequence_number - 1
    /\ pc = "l123" => message = ticks - 1

\* C19 witness: in the third iteration the discovery call submits, after the
\* call for the peer has failed and after a retry; the payload is 2.
C19_Witness ==
    /\ pc = "l123" /\ mac_addr = "broadcast_mac" /\ retry > 0 /\ unicasts = 1
    /\ ~peer_found /\ ticks = 3 /\ message = 2

\* The main task is inside send_with_retry.
InSend == pc \in {"l122", "l123", "l126", "l130", "l131", "l141"}

\* The main task waits for a time beyond the bound of the model's clock.
Horizon == Blocked /\ now + ClockStep > MaxTime

\* C20: every call of send_with_retry returns, every iteration of the loop
\* reaches the delay of line 209, and the delay ends with the next iteration
\* (as far as the model's clock goes).
C20_TickCompletes ==
    /\ InSend ~> (pc \in {"l191", "l202"} \/ Horizon)
    /\ pc = "l179" ~> (pc = "l209" \/ Horizon)
    /\ pc = "l209" ~> (pc = "l179" \/ Horizon)

\* C20 for the runs without abort: the wait of line 130 and the delays of
\* lines 126, 141 and 209 end, whatever the transport does.
C20_CompletesUnlessAborted ==
    /\ InSend ~> (pc \in {"l191", "l202"} \/ Horizon \/ aborted)
    /\ pc = "l179" ~> (pc = "l209" \/ Horizon \/ aborted)
    /\ pc = "l209" ~> (pc = "l179" \/ Horizon \/ aborted)

\* Node n holds the other node as its peer.
Other(n) == CHOOSE m \in Nodes : m # n

ActiveWithOther(n) == node[n].peer_found /\ node[n].peer_mac = Other(n)

BothActive == \A n \in Nodes : ActiveWithOther(n)

\* On the link of SpecPair no send is rejected, no completion is missing or
\* negative, no peer is overdue and no node aborts: the lines the two-node
\* model has no action for are not reached.
PairOnPath ==
    \A n \in Nodes :
        /\ ~node[n].aborted
        /\ node[n].pc \notin {"l126", "l141", "l183", "l184", "l193", "l194"}
        /\ node[n].pc = "l123" => PairDest(n) \in node[n].peers
        /\ (node[n].pc = "l130" /\ node[n].send_semaphore = 0)
              => (node[n].inflight > 0 /\ clock < node[n].wake)
        /\ node[n].pc = "l131" => node[n].send_success
        /\ node[n].pc \in {"l191", "l202"} => node[n].ret

\* C13: two nodes that start with no peer held come to hold each other and
\* keep doing so.  A node with no peer held adopts the source of the frame
\* it receives; a node that begins an iteration holding the other node
\* submits a frame addressed to it in that iteration.
C13_PairMeets ==
    /\ []PairOnPath
    /\ <>[]BothActive
    /\ [][\A n \in Nodes :
            (~node[n].peer_found /\ Len(air'[n]) < Len(air[n]))
               => (node'[n].peer_found /\ node'[n].peer_mac = Head(air[n])
                   /\ node'[n].peer_mac = Other(n))]_vars
    /\ \A n \in Nodes :
         (At(n, "l179") /\ ActiveWithOther(n))
            ~> (At(n, "l130") /\ node[n].mac_addr = "peer_mac"
                /\ PairDest(n) = Other(n))

\* C13 witness: both nodes hold each other, and X waits for the completion
\* of a frame addressed to Y, in an iteration after its first.
C13_Witness ==
    /\ BothActive
    /\ node["X"].pc = "l130" /\ node["X"].mac_addr = "peer_mac"
    /\ node["X"].sequence_number > 1 /\ clock > 0

====
